---- MODULE Spec2Model ----
(***************************************************************************)
(* Model of src/project/src/storage.py: the JSON record store (events,     *)
(* users, attendances, side_events, meeting_requests), the event catalog   *)
(* (create_event / update_event / delete_event), the attendance ledger     *)
(* (upsert_attendance) and the visibility engine (list_visible_attendees). *)
(*                                                                         *)
(* Text (slugs, names, company/title, filters) is a sequence of one-       *)
(* character strings so that strip/lower/slugify/substring are computed.   *)
(* A user id is a natural number standing for an id string; the numeric    *)
(* order is the lexicographic order of the strings.  updated_at is a       *)
(* natural number standing for the fixed-width ISO-8601 string now_iso()   *)
(* produces, whose string order is the numeric order.                      *)
(***************************************************************************)
EXTENDS Naturals, Integers, Sequences, FiniteSets, TLC

VARIABLES events, users, attendances, side_events, meeting_requests,
          now, calls, lastOp, result

vars == <<events, users, attendances, side_events, meeting_requests,
          now, calls, lastOp, result>>

\* ------------------------------------------------------------------ bounds
MaxNow == 2
MaxCalls == 3
MaxCrowd == 26

\* ------------------------------------------------------- program constants
FREE_ATTENDEE_LIMIT == 25
PRO_ATTENDEE_LIMIT == 500

\* --------------------------------------------------------------------- text
\* Python's None where a text is expected (distinct from every text, "" included)
None == <<"None">>

IsAlnum(ch) == ch \in {"a", "b", "c", "A", "B", "C"}
LowerChar(ch) == CASE ch = "A" -> "a" [] ch = "B" -> "b" [] ch = "C" -> "c" [] OTHER -> ch

\* str.lower()
Lower(s) == [i \in 1..Len(s) |-> LowerChar(s[i])]

RECURSIVE LStrip(_, _)
LStrip(s, drop) == IF s # <<>> /\ Head(s) \in drop THEN LStrip(Tail(s), drop) ELSE s

RECURSIVE RStrip(_, _)
RStrip(s, drop) ==
    IF s # <<>> /\ s[Len(s)] \in drop THEN RStrip(SubSeq(s, 1, Len(s) - 1), drop) ELSE s

\* str.strip(): whitespace removed at both ends
Strip(s) == RStrip(LStrip(s, {" "}), {" "})

\* str.strip("-")
StripDash(s) == RStrip(LStrip(s, {"-"}), {"-"})

\* while "--" in safe: safe = safe.replace("--", "-")
RECURSIVE CollapseDashes(_)
CollapseDashes(s) ==
    IF Len(s) < 2 THEN s
    ELSE IF s[1] = "-" /\ s[2] = "-" THEN CollapseDashes(Tail(s))
    ELSE <<s[1]>> \o CollapseDashes(Tail(s))

\* _slugify
Slugify(value) ==
    LET stripped == Strip(value)
        safe == [i \in 1..Len(stripped) |->
                    IF IsAlnum(stripped[i]) THEN LowerChar(stripped[i]) ELSE "-"]
    IN StripDash(CollapseDashes(safe))

\* Python's `needle in hay`
Contains(hay, needle) ==
    \E i \in 0..(Len(hay) - Len(needle)) : SubSeq(hay, i + 1, i + Len(needle)) = needle

\* Python's `x or y` on an optional text: None and "" are falsy
OrElse(x, y) == IF x = None \/ x = <<>> THEN y ELSE x

\* -------------------------------------------------------------------- users
\* viewer = None (anonymous); `if not viewer` / `viewer and ...` test this
Anonymous == [id |-> 0, role |-> "NONE", plan |-> "NONE", subscription_status |-> "NONE",
              verified_email_domain |-> FALSE, company |-> <<>>, title |-> <<>>]

User(id, role, plan, status, verified, company, title) ==
    [id |-> id, role |-> role, plan |-> plan, subscription_status |-> status,
     verified_email_domain |-> verified, company |-> company, title |-> title]

\* user ids; Ids.ghost is an id no stored user has, crowd users follow Ids.crowd
Ids == [admin |-> 1, free |-> 2, ghost |-> 3, lapsed |-> 4, pro |-> 5, staff |-> 6,
        verified |-> 7, crowd |-> 100]

SeedUsers ==
    << User(Ids.admin, "ADMIN", "PRO", "ACTIVE", TRUE, <<"A", "c">>, <<"A">>),
       User(Ids.free, "USER", "FREE", "CANCELED", FALSE, <<"a", "b">>, <<"A">>),
       User(Ids.lapsed, "USER", "PRO", "CANCELED", FALSE, <<"b">>, <<"c">>),
       User(Ids.pro, "USER", "PRO", "ACTIVE", FALSE, <<"B", "c">>, <<"C">>),
       User(Ids.staff, "ADMIN", "FREE", "CANCELED", FALSE, <<"c">>, <<"A">>),
       User(Ids.verified, "USER", "FREE", "CANCELED", TRUE, <<"c">>, <<"b", " ", "c">>) >>

CrowdUser(i) == User(Ids.crowd + i, "USER", "FREE", "CANCELED", FALSE, <<"b">>, <<"c">>)

\* users = {str(user.get("id")): user for user in data["users"]}; users.get(id)
HasUser(us, id) == \E i \in 1..Len(us) : us[i].id = id
UserById(us, id) ==
    us[CHOOSE i \in 1..Len(us) : us[i].id = id /\ \A j \in (i + 1)..Len(us) : us[j].id # id]

\* ------------------------------------------------------- visibility engine
States == {"INTERESTED", "ATTENDING"}
Visibilities == {"PUBLIC", "VERIFIED_ONLY", "PRIVATE"}

Row(slug, uid, st, vis, at) ==
    [event_slug |-> slug, user_id |-> uid, state |-> st, visibility |-> vis, updated_at |-> at]

\* (variant: a PRO plan counts whatever the subscription status)
can_view_verified_only_AnyPro(viewer) ==
    IF viewer = Anonymous THEN FALSE
    ELSE IF viewer.role = "ADMIN" THEN TRUE
    ELSE IF viewer.verified_email_domain THEN TRUE
    ELSE viewer.plan = "PRO"

\* can_view_verified_only
can_view_verified_only(viewer) ==
    IF viewer = Anonymous THEN FALSE
    ELSE IF viewer.role = "ADMIN" THEN TRUE
    ELSE IF viewer.verified_email_domain THEN TRUE
    ELSE viewer.plan = "PRO" /\ viewer.subscription_status = "ACTIVE"

\* attendee_limit
attendee_limit(viewer) ==
    IF viewer # Anonymous
       /\ (viewer.role = "ADMIN"
           \/ (viewer.plan = "PRO" /\ viewer.subscription_status = "ACTIVE"))
    THEN PRO_ATTENDEE_LIMIT
    ELSE FREE_ATTENDEE_LIMIT

\* (variant: the sort key is updated_at alone)
KeyGreater_NoTieBreak(a, b) == a.updated_at > b.updated_at

\* the sort key (str(updated_at), str(user_id)) compared as a tuple
KeyGreater(a, b) ==
    \/ a.updated_at > b.updated_at
    \/ (a.updated_at = b.updated_at /\ a.user_id > b.user_id)

\* rows.sort(key=..., reverse=True): descending and stable (rows with equal keys
\* keep their storage order)
RECURSIVE InsertDesc(_, _)
InsertDesc(x, s) ==
    IF s = <<>> THEN <<x>>
    ELSE IF KeyGreater(Head(s), x) THEN <<Head(s)>> \o InsertDesc(x, Tail(s))
    ELSE <<x>> \o s

RECURSIVE SortDesc(_)
SortDesc(s) == IF s = <<>> THEN <<>> ELSE InsertDesc(Head(s), SortDesc(Tail(s)))

\* (variant: a private row is shown to every logged-in viewer)
can_see_PrivateToAnyUser(viewer, row) ==
    IF viewer # Anonymous /\ viewer.role = "ADMIN" THEN TRUE
    ELSE IF row.visibility = "PUBLIC" THEN TRUE
    ELSE IF row.visibility = "VERIFIED_ONLY" THEN can_view_verified_only(viewer)
    ELSE IF row.visibility = "PRIVATE" THEN viewer # Anonymous
    ELSE FALSE

\* (variant: no ADMIN branch)
can_see_NoAdminBranch(viewer, row) ==
    IF row.visibility = "PUBLIC" THEN TRUE
    ELSE IF row.visibility = "VERIFIED_ONLY" THEN can_view_verified_only(viewer)
    ELSE IF row.visibility = "PRIVATE" THEN viewer # Anonymous /\ viewer.id = row.user_id
    ELSE FALSE

\* the can_see chain of list_visible_attendees
can_see(viewer, row) ==
    IF viewer # Anonymous /\ viewer.role = "ADMIN" THEN TRUE
    ELSE IF row.visibility = "PUBLIC" THEN TRUE
    ELSE IF row.visibility = "VERIFIED_ONLY" THEN can_view_verified_only(viewer)
    ELSE IF row.visibility = "PRIVATE" THEN viewer # Anonymous /\ viewer.id = row.user_id
    ELSE FALSE

\* `if state and row.get("state") != state: continue` ("None" stands for None)
StateMatches(state, row) == state \in {"None", ""} \/ row.state = state

\* `if c and c not in str(user.get(field, "")).lower(): continue`
TextMatches(filter, text) ==
    LET c == Lower(Strip(OrElse(filter, <<>>)))
    IN c = <<>> \/ Contains(Lower(text), c)

\* (variant: a row matching a company filter is kept whatever the predicate says)
Survives_FilterFirst(us, viewer, company, title, state, row) ==
    /\ StateMatches(state, row)
    /\ HasUser(us, row.user_id)
    /\ TextMatches(company, UserById(us, row.user_id).company)
    /\ can_see(viewer, row) \/ Lower(Strip(OrElse(company, <<>>))) # <<>>
    /\ TextMatches(title, UserById(us, row.user_id).title)

\* one pass of the loop body: does the row reach visible.append
Survives(us, viewer, company, title, state, row) ==
    /\ StateMatches(state, row)
    /\ HasUser(us, row.user_id)
    /\ can_see(viewer, row)
    /\ TextMatches(company, UserById(us, row.user_id).company)
    /\ TextMatches(title, UserById(us, row.user_id).title)

\* the disclosure record appended to visible
Project(us, row) ==
    LET user == UserById(us, row.user_id)
    IN [user_id |-> user.id, company |-> user.company, title |-> user.title,
        state |-> row.state, visibility |-> row.visibility, updated_at |-> row.updated_at]

\* (variant: no truncation)
TakeAll(s, n) == s

\* visible[:limit]
Take(s, n) == SubSeq(s, 1, IF Len(s) < n THEN Len(s) ELSE n)

\* (variant: the tier limit is applied to the rows before they are filtered)
list_visible_attendees_LimitFirst(att, us, event_slug, viewer, company, title, state) ==
    LET OfEvent(a) == a.event_slug = event_slug
        limit == attendee_limit(viewer)
        rows == Take(SortDesc(SelectSeq(att, OfEvent)), limit)
        Keep(r) == Survives(us, viewer, company, title, state, r)
        kept == SelectSeq(rows, Keep)
        visible == [i \in 1..Len(kept) |-> Project(us, kept[i])]
    IN [items |-> visible, total_visible |-> Len(visible), limit |-> limit]

list_visible_attendees(att, us, event_slug, viewer, company, title, state) ==
    LET OfEvent(a) == a.event_slug = event_slug
        rows == SortDesc(SelectSeq(att, OfEvent))
        Keep(r) == Survives(us, viewer, company, title, state, r)
        kept == SelectSeq(rows, Keep)
        visible == [i \in 1..Len(kept) |-> Project(us, kept[i])]
        limit == attendee_limit(viewer)
    IN [items |-> Take(visible, limit), total_visible |-> Len(visible), limit |-> limit]

\* ------------------------------------------------------------- record store
Event(slug, name) == [slug |-> slug, name |-> name]
Aux(slug, id) == [event_slug |-> slug, id |-> id]

SlugA == <<"a">>
SlugB == <<"b">>

HasEvent(evs, slug) == \E i \in 1..Len(evs) : evs[i].slug = slug

NoOp == [op |-> "none", args |-> <<>>, ok |-> TRUE, error |-> "", repeat |-> FALSE]
NoResult == [args |-> [event_slug |-> None], out |-> [items |-> <<>>, total_visible |-> 0, limit |-> 0]]

\* what a handler leaves in the data file, and what it raises
Outcome(ok, error, evs, att, side, meet) ==
    [ok |-> ok, error |-> error, events |-> evs, attendances |-> att,
     side_events |-> side, meeting_requests |-> meet]
Raise(error, evs, att, side, meet) == Outcome(FALSE, error, evs, att, side, meet)

\* (variant: no check that the slug is free)
create_event_NoCollisionCheck(evs, att, side, meet, payload) ==
    LET slug == Slugify(OrElse(payload.slug, OrElse(payload.name, <<>>)))
        name == Strip(OrElse(payload.name, <<>>))
    IN IF slug = <<>> THEN Raise("Slug or name is required", evs, att, side, meet)
       ELSE IF name = <<>> THEN Raise("Event name is required", evs, att, side, meet)
       ELSE Outcome(TRUE, "", Append(evs, Event(slug, name)), att, side, meet)

\* create_event; payload = [slug, name], None for an absent key
create_event(evs, att, side, meet, payload) ==
    LET slug == Slugify(OrElse(payload.slug, OrElse(payload.name, <<>>)))
        name == Strip(OrElse(payload.name, <<>>))
    IN IF slug = <<>> THEN Raise("Slug or name is required", evs, att, side, meet)
       ELSE IF HasEvent(evs, slug) THEN Raise("Event slug already exists", evs, att, side, meet)
       ELSE IF name = <<>> THEN Raise("Event name is required", evs, att, side, meet)
       ELSE Outcome(TRUE, "", Append(evs, Event(slug, name)), att, side, meet)

\* (variant: the cascade stops after the first row it rewrites)
CascadeRename_FirstOnly(att, slug, new_slug) ==
    [i \in 1..Len(att) |->
        IF att[i].event_slug = slug /\ \A j \in 1..(i - 1) : att[j].event_slug # slug
        THEN [att[i] EXCEPT !.event_slug = new_slug] ELSE att[i]]

\* the rename cascade of update_event over data["attendances"]
CascadeRename(att, slug, new_slug) ==
    [i \in 1..Len(att) |->
        IF att[i].event_slug = slug THEN [att[i] EXCEPT !.event_slug = new_slug] ELSE att[i]]

\* (variant: no check that the new slug is free)
update_event_NoCollisionCheck(evs, att, side, meet, slug, payload) ==
    IF ~HasEvent(evs, slug) THEN Raise("Event not found", evs, att, side, meet)
    ELSE
      LET k == CHOOSE i \in 1..Len(evs) :
                   evs[i].slug = slug /\ \A j \in 1..(i - 1) : evs[j].slug # slug
          new_slug == Slugify(OrElse(payload.slug, slug))
          name == Strip(IF payload.name = None THEN evs[k].name ELSE payload.name)
      IN Outcome(TRUE, "", [evs EXCEPT ![k] = Event(new_slug, name)],
                 IF new_slug # slug THEN CascadeRename(att, slug, new_slug) ELSE att,
                 side, meet)

\* update_event; payload = [slug, name], None for an absent key
update_event(evs, att, side, meet, slug, payload) ==
    IF ~HasEvent(evs, slug) THEN Raise("Event not found", evs, att, side, meet)
    ELSE
      LET k == CHOOSE i \in 1..Len(evs) :
                   evs[i].slug = slug /\ \A j \in 1..(i - 1) : evs[j].slug # slug
          new_slug == Slugify(OrElse(payload.slug, slug))
          name == Strip(IF payload.name = None THEN evs[k].name ELSE payload.name)
      IN IF new_slug # slug /\ HasEvent(evs, new_slug)
         THEN Raise("Event slug already exists", evs, att, side, meet)
         ELSE Outcome(TRUE, "", [evs EXCEPT ![k] = Event(new_slug, name)],
                      IF new_slug # slug THEN CascadeRename(att, slug, new_slug) ELSE att,
                      side, meet)

\* (variant: side_events and meeting_requests are not cleaned up)
delete_event_NoAuxCascade(evs, att, side, meet, slug) ==
    LET KeepEvent(e) == e.slug # slug
        KeepRow(r) == r.event_slug # slug
    IN IF Len(SelectSeq(evs, KeepEvent)) = Len(evs)
       THEN Raise("Event not found", evs, att, side, meet)
       ELSE Outcome(TRUE, "", SelectSeq(evs, KeepEvent), SelectSeq(att, KeepRow), side, meet)

\* delete_event
delete_event(evs, att, side, meet, slug) ==
    LET KeepEvent(e) == e.slug # slug
        KeepRow(r) == r.event_slug # slug
    IN IF Len(SelectSeq(evs, KeepEvent)) = Len(evs)
       THEN Raise("Event not found", evs, att, side, meet)
       ELSE Outcome(TRUE, "", SelectSeq(evs, KeepEvent), SelectSeq(att, KeepRow),
                    SelectSeq(side, KeepRow), SelectSeq(meet, KeepRow))

\* (variant: no lookup of an existing row, every call inserts)
upsert_attendance_AlwaysInsert(evs, att, side, meet, event_slug, user_id, state, visibility, t) ==
    IF state \notin States THEN Raise("Invalid attendance state", evs, att, side, meet)
    ELSE IF visibility \notin Visibilities
    THEN Raise("Invalid attendance visibility", evs, att, side, meet)
    ELSE IF ~HasEvent(evs, event_slug) THEN Raise("Event not found", evs, att, side, meet)
    ELSE Outcome(TRUE, "", evs,
                 Append(att, Row(event_slug, user_id, state, visibility, t)), side, meet)

\* (variant: the row is written before the visibility is validated)
upsert_attendance_WriteThenValidate(evs, att, side, meet, event_slug, user_id, state, visibility, t) ==
    IF state \notin States THEN Raise("Invalid attendance state", evs, att, side, meet)
    ELSE IF ~HasEvent(evs, event_slug) THEN Raise("Event not found", evs, att, side, meet)
    ELSE
      LET Hit(i) == att[i].event_slug = event_slug /\ att[i].user_id = user_id
          written ==
             IF \E i \in 1..Len(att) : Hit(i)
             THEN LET k == CHOOSE i \in 1..Len(att) : Hit(i) /\ \A j \in 1..(i - 1) : ~Hit(j)
                  IN [att EXCEPT ![k] = [@ EXCEPT !.state = state,
                                                   !.visibility = visibility,
                                                   !.updated_at = t]]
             ELSE Append(att, Row(event_slug, user_id, state, visibility, t))
      IN IF visibility \notin Visibilities
         THEN Raise("Invalid attendance visibility", evs, written, side, meet)
         ELSE Outcome(TRUE, "", evs, written, side, meet)

\* upsert_attendance; t is the value now_iso() returns during the call
upsert_attendance(evs, att, side, meet, event_slug, user_id, state, visibility, t) ==
    IF state \notin States THEN Raise("Invalid attendance state", evs, att, side, meet)
    ELSE IF visibility \notin Visibilities
    THEN Raise("Invalid attendance visibility", evs, att, side, meet)
    ELSE IF ~HasEvent(evs, event_slug) THEN Raise("Event not found", evs, att, side, meet)
    ELSE
      LET Hit(i) == att[i].event_slug = event_slug /\ att[i].user_id = user_id
      IN IF \E i \in 1..Len(att) : Hit(i)
         THEN LET k == CHOOSE i \in 1..Len(att) : Hit(i) /\ \A j \in 1..(i - 1) : ~Hit(j)
              IN Outcome(TRUE, "", evs,
                         [att EXCEPT ![k] = [@ EXCEPT !.state = state,
                                                       !.visibility = visibility,
                                                       !.updated_at = t]],
                         side, meet)
         ELSE Outcome(TRUE, "", evs,
                      Append(att, Row(event_slug, user_id, state, visibility, t)),
                      side, meet)

\* ------------------------------------------------------------------- inputs
SlugC == <<"c">>
SlugArgs == {SlugA, SlugB, SlugC}

Payload(slug, name) == [slug |-> slug, name |-> name]

CreatePayloads ==
    { Payload(SlugC, <<"C">>),
      Payload(<<>>, <<"A", " ", "B">>),
      Payload(None, <<"A", " ", "B">>),
      Payload(None, None),
      Payload(<<"A">>, <<"A">>),
      Payload(<<"b", " ">>, <<" ">>),
      Payload(<<"-">>, <<"B">>) }

UpdatePayloads ==
    { Payload(None, None),
      Payload(<<"C">>, None),
      Payload(<<"b">>, <<"B", " ">>),
      Payload(<<"-">>, None),
      Payload(None, <<" ">>) }

UpsertUsers == {Ids.free, Ids.verified, Ids.ghost}
UpsertChoices ==
    { <<"ATTENDING", "PRIVATE">>, <<"INTERESTED", "PUBLIC">>,
      <<"GOING", "PUBLIC">>, <<"ATTENDING", "SECRET">> }

\* ------------------------------------------------------------ initial state
SeedEvents == << Event(SlugA, <<"A">>), Event(SlugB, <<"B">>) >>
SeedAttendances ==
    << Row(SlugA, Ids.free, "INTERESTED", "PUBLIC", 0),
       Row(SlugA, Ids.verified, "ATTENDING", "VERIFIED_ONLY", 1),
       Row(SlugB, Ids.free, "ATTENDING", "PRIVATE", 1) >>
SeedSideEvents == << Aux(SlugA, 1), Aux(SlugB, 2) >>
SeedMeetingRequests == << Aux(SlugB, 1) >>

\* _default_data(): the store before any data file exists (users are seeded
\* externally and never written by a handler)
InitEmpty ==
    /\ events = <<>>
    /\ attendances = <<>>
    /\ side_events = <<>>
    /\ meeting_requests = <<>>

InitSeeded ==
    /\ events = SeedEvents
    /\ attendances = SeedAttendances
    /\ side_events = SeedSideEvents
    /\ meeting_requests = SeedMeetingRequests

Init ==
    /\ InitEmpty \/ InitSeeded
    /\ users = SeedUsers
    /\ now = 1
    /\ calls = 0
    /\ lastOp = NoOp
    /\ result = NoResult

\* ------------------------------------------------------------------ actions
\* write_data on success; on a raise nothing is written
Apply(op, args, out) ==
    /\ events' = out.events
    /\ attendances' = out.attendances
    /\ side_events' = out.side_events
    /\ meeting_requests' = out.meeting_requests
    /\ calls' = calls + 1
    /\ lastOp' = [op |-> op, args |-> args, ok |-> out.ok, error |-> out.error,
                  repeat |-> lastOp.op = op /\ lastOp.args = args]
    /\ UNCHANGED <<users, result>>

CreateEvent ==
    /\ calls < MaxCalls
    /\ \E payload \in CreatePayloads :
          Apply("create_event", <<payload>>,
                create_event(events, attendances, side_events, meeting_requests, payload))
    /\ UNCHANGED now

UpdateEvent ==
    /\ calls < MaxCalls
    /\ \E slug \in SlugArgs, payload \in UpdatePayloads :
          Apply("update_event", <<slug, payload>>,
                update_event(events, attendances, side_events, meeting_requests,
                             slug, payload))
    /\ UNCHANGED now

DeleteEvent ==
    /\ calls < MaxCalls
    /\ \E slug \in SlugArgs :
          Apply("delete_event", <<slug>>,
                delete_event(events, attendances, side_events, meeting_requests, slug))
    /\ UNCHANGED now

\* the clock may have advanced since the previous call
UpsertAttendance ==
    /\ calls < MaxCalls
    /\ \E t \in {now, now + 1} :
          /\ t <= MaxNow
          /\ now' = t
          /\ \E slug \in SlugArgs, uid \in UpsertUsers, c \in UpsertChoices :
                Apply("upsert_attendance", <<slug, uid, c[1], c[2]>>,
                      upsert_attendance(events, attendances, side_events,
                                        meeting_requests, slug, uid, c[1], c[2], t))

Next == CreateEvent \/ UpdateEvent \/ DeleteEvent \/ UpsertAttendance

Spec == Init /\ [][Next]_vars

\* ---------------------------------------- the visibility engine on its own
\* Stores for the read side: event a holds at most one row of user free, one of
\* user verified and one of the unknown user ghost, or a row of free, one of
\* ghost and a crowd of public rows (more than FREE_ATTENDEE_LIMIT of them);
\* event b holds at most one private row.
RowOptions ==
    {<<>>} \cup { <<Row(SlugA, 0, st, vis, at)>> :
                     st \in States, vis \in Visibilities, at \in {MaxNow - 1, MaxNow} }

OwnedBy(opt, uid) == [i \in 1..Len(opt) |-> [opt[i] EXCEPT !.user_id = uid]]

CrowdRows(n) ==
    [i \in 1..n |-> Row(SlugA, Ids.crowd + i,
                        IF i % 2 = 0 THEN "ATTENDING" ELSE "INTERESTED",
                        "PUBLIC", i % (MaxNow + 1))]
CrowdUsers(n) == [i \in 1..n |-> CrowdUser(i)]

Reverse(s) == [i \in 1..Len(s) |-> s[Len(s) + 1 - i]]

Viewers == {Anonymous} \cup {SeedUsers[i] : i \in 1..Len(SeedUsers)}
CompanyFilters == {None, <<"B", " ">>}
TitleFilters == {<<" ">>, <<"C">>}
StateFilters == {"None", "ATTENDING"}

InitList ==
    /\ events = SeedEvents
    /\ side_events = <<>>
    /\ meeting_requests = <<>>
    /\ \E free \in RowOptions, verified \in RowOptions,
          ghost \in BOOLEAN, other \in BOOLEAN, reversed \in BOOLEAN, crowd \in {0, MaxCrowd} :
          LET rows == OwnedBy(free, Ids.free)
                      \o (IF other THEN <<Row(SlugB, Ids.free, "ATTENDING", "PRIVATE", 1)>>
                          ELSE <<>>)
                      \o (IF ghost THEN <<Row(SlugA, Ids.ghost, "ATTENDING", "VERIFIED_ONLY", MaxNow)>>
                          ELSE <<>>)
                      \o CrowdRows(crowd)
                      \o OwnedBy(verified, Ids.verified)
          IN /\ crowd > 0 => ~other /\ ~reversed /\ verified = <<>>
             /\ attendances = IF reversed THEN Reverse(rows) ELSE rows
             /\ users = SeedUsers \o CrowdUsers(crowd)
    /\ now = MaxNow
    /\ calls = 0
    /\ lastOp = NoOp
    /\ result = NoResult

ListArgs(slug, viewer, company, title, state) ==
    [event_slug |-> slug, viewer |-> viewer, company |-> company, title |-> title,
     state |-> state]

\* a read: one call per run, applied to the store drawn by InitList
ListVisibleAttendees ==
    /\ calls = 0
    /\ calls' = calls + 1
    /\ \E slug \in {SlugA, SlugB}, viewer \in Viewers, company \in CompanyFilters,
          title \in TitleFilters, state \in StateFilters :
          result' = [args |-> ListArgs(slug, viewer, company, title, state),
                     out |-> list_visible_attendees(attendances, users, slug, viewer,
                                                    company, title, state)]
    /\ UNCHANGED <<events, users, attendances, side_events, meeting_requests,
                   now, lastOp>>

NextList == ListVisibleAttendees

SpecList == InitList /\ [][NextList]_vars

\* =================================================================== claims
\* The call recorded in result and what it returned.
Called == result # NoResult
Args == result.args
Out == result.out

\* indices of the stored rows of the requested event
EventRowIdx == {i \in 1..Len(attendances) : attendances[i].event_slug = Args.event_slug}

\* the row is one of the returned items
Returned(row) ==
    \E k \in 1..Len(Out.items) :
        /\ Out.items[k].user_id = row.user_id
        /\ Out.items[k].visibility = row.visibility
        /\ Out.items[k].state = row.state
        /\ Out.items[k].updated_at = row.updated_at

IsAdmin(viewer) == viewer # Anonymous /\ viewer.role = "ADMIN"
IsActivePro(viewer) ==
    viewer # Anonymous /\ viewer.plan = "PRO" /\ viewer.subscription_status = "ACTIVE"
Eligible(viewer) ==
    IsAdmin(viewer) \/ (viewer # Anonymous /\ viewer.verified_email_domain) \/ IsActivePro(viewer)

\* the call passes no effective filter
NoFilters ==
    /\ Lower(Strip(OrElse(Args.company, <<>>))) = <<>>
    /\ Lower(Strip(OrElse(Args.title, <<>>))) = <<>>
    /\ Args.state \in {"None", ""}

\* the row passes the steps other than the disclosure predicate: the state
\* filter, user resolution and the company/title filters
PassesOtherSteps(row) ==
    /\ Args.state \in {"None", ""} \/ row.state = Args.state
    /\ \E u \in 1..Len(users) :
          /\ users[u].id = row.user_id
          /\ TextMatches(Args.company, users[u].company)
          /\ TextMatches(Args.title, users[u].title)

\* private rows of the requested event that belong to somebody else
ForeignPrivateIdx ==
    {i \in EventRowIdx : /\ attendances[i].visibility = "PRIVATE"
                         /\ (Args.viewer = Anonymous
                             \/ Args.viewer.id # attendances[i].user_id)}

\* C1 as stated: a PRIVATE row is never returned to, nor counted for, an
\* anonymous viewer or a viewer whose id differs from the row's user_id.
C1_Original ==
    Called =>
        /\ \A i \in ForeignPrivateIdx : ~Returned(attendances[i])
        /\ Out.total_visible <= Cardinality(EventRowIdx \ ForeignPrivateIdx)

\* C1 (amended): a PRIVATE row is never returned to, nor counted in
\* total_visible for, an anonymous viewer or a non-ADMIN viewer whose id differs
\* from the row's user_id, whatever the event, the store and the filters.
C1_Privacy ==
    (Called /\ ~IsAdmin(Args.viewer)) =>
        /\ \A i \in ForeignPrivateIdx : ~Returned(attendances[i])
        /\ Out.total_visible <= Cardinality(EventRowIdx \ ForeignPrivateIdx)

\* a logged-in non-ADMIN viewer asks for an event holding somebody else's private
\* row that passes every other step, and gets other rows back
C1_Witness ==
    /\ Called
    /\ Args.viewer # Anonymous
    /\ ~IsAdmin(Args.viewer)
    /\ \E i \in ForeignPrivateIdx : PassesOtherSteps(attendances[i])
    /\ Len(Out.items) > 0

C3_Original ==
    (Called /\ IsAdmin(Args.viewer) /\ NoFilters) =>
        Out.total_visible = Cardinality(EventRowIdx)

\* C3 (amended): an ADMIN viewer with no filters sees every row of the event
\* whose user_id resolves to a stored user, whatever the row's visibility:
\* total_visible is the number of those rows, and each is returned unless the
\* tier limit cut the list.
C3_AdminOverride ==
    (Called /\ IsAdmin(Args.viewer) /\ NoFilters) =>
        /\ Out.total_visible =
              Cardinality({i \in EventRowIdx : HasUser(users, attendances[i].user_id)})
        /\ \A i \in EventRowIdx :
              HasUser(users, attendances[i].user_id)
                 => (Returned(attendances[i]) \/ Out.total_visible > Out.limit)

\* an ADMIN who is neither verified nor PRO lists, without filters, an event that
\* holds a PRIVATE and a VERIFIED_ONLY row of existing users
C3_Witness ==
    /\ Called
    /\ IsAdmin(Args.viewer)
    /\ ~Args.viewer.verified_email_domain
    /\ ~IsActivePro(Args.viewer)
    /\ NoFilters
    /\ \E i, j \in EventRowIdx :
          /\ attendances[i].visibility = "PRIVATE"
          /\ attendances[j].visibility = "VERIFIED_ONLY"
          /\ HasUser(users, attendances[i].user_id)
          /\ HasUser(users, attendances[j].user_id)
    /\ Out.total_visible >= 2

\* C4 as stated: len(items) <= limit; limit is 25 for a FREE-plan or anonymous
\* viewer and 500 for an ADMIN or active-PRO viewer.
C4_Original ==
    Called =>
        /\ Len(Out.items) <= Out.limit
        /\ (Args.viewer = Anonymous \/ Args.viewer.plan = "FREE")
              => Out.limit = FREE_ATTENDEE_LIMIT
        /\ (IsAdmin(Args.viewer) \/ IsActivePro(Args.viewer))
              => Out.limit = PRO_ATTENDEE_LIMIT

\* C4 (amended): len(items) <= limit; limit is exactly 25 for an anonymous viewer
\* or a FREE-plan viewer who is not ADMIN, and exactly 500 for an ADMIN viewer
\* or a viewer with plan PRO and subscription_status ACTIVE.
C4_TierLimit ==
    Called =>
        /\ Len(Out.items) <= Out.limit
        /\ (Args.viewer = Anonymous \/ (Args.viewer.plan = "FREE" /\ ~IsAdmin(Args.viewer)))
              => Out.limit = FREE_ATTENDEE_LIMIT
        /\ (IsAdmin(Args.viewer) \/ IsActivePro(Args.viewer))
              => Out.limit = PRO_ATTENDEE_LIMIT

\* a FREE-plan viewer is shown exactly limit items out of more visible rows
C4_Witness ==
    /\ Called
    /\ Args.viewer # Anonymous
    /\ Args.viewer.plan = "FREE"
    /\ Out.limit = FREE_ATTENDEE_LIMIT
    /\ Len(Out.items) = Out.limit
    /\ Out.total_visible > Out.limit

\* list_visible_attendees with the recorded arguments on another attendance list
Relist(att) ==
    list_visible_attendees(att, users, Args.event_slug, Args.viewer, Args.company,
                           Args.title, Args.state)

\* (a.updated_at, a.user_id) >= (b.updated_at, b.user_id), lexicographically
PairGeq(a, b) ==
    \/ a.updated_at > b.updated_at
    \/ (a.updated_at = b.updated_at /\ a.user_id >= b.user_id)

Rotate(s) == IF s = <<>> THEN s ELSE Tail(s) \o <<Head(s)>>

\* C5: the returned items are in descending (updated_at, user_id) order, ties
\* on updated_at broken by descending user_id, and the result does not depend
\* on the order in which the rows are stored.
C5_Ordering ==
    Called =>
        /\ \A k, l \in 1..Len(Out.items) :
              k < l => PairGeq(Out.items[k], Out.items[l])
        /\ Relist(Reverse(attendances)) = Out
        /\ Relist(Rotate(attendances)) = Out

\* two returned items share updated_at and the one returned first is stored last
C5_Witness ==
    /\ Called
    /\ \E k, l \in 1..Len(Out.items) :
          /\ k < l
          /\ Out.items[k].updated_at = Out.items[l].updated_at
          /\ \E i, j \in EventRowIdx :
                /\ j < i
                /\ attendances[i].user_id = Out.items[k].user_id
                /\ attendances[j].user_id = Out.items[l].user_id

\* rows of the requested event that fail the disclosure predicate for the viewer
HiddenIdx == {i \in EventRowIdx : ~can_see(Args.viewer, attendances[i])}

\* the attendance list without the rows at the indices in H
RECURSIVE Without(_, _, _)
Without(att, H, i) ==
    IF i > Len(att) THEN <<>>
    ELSE (IF i \in H THEN <<>> ELSE <<att[i]>>) \o Without(att, H, i + 1)

\* the row at index i changed into another row that is hidden just the same
Altered(att, i) ==
    [att EXCEPT ![i] = [@ EXCEPT !.state = IF @ = "ATTENDING" THEN "INTERESTED"
                                            ELSE "ATTENDING",
                                  !.updated_at = IF @ = 0 THEN 1 ELSE 0]]

\* C6: whatever the viewer, the event and the company/title/state filters,
\* removing, adding or changing rows of the event that fail the disclosure
\* predicate for the viewer changes nothing in the result: items, total_visible
\* and limit are those of the store without any hidden row.
C6_FiltersRevealNothing ==
    Called =>
        /\ \A H \in SUBSET HiddenIdx : Relist(Without(attendances, H, 1)) = Out
        /\ \A i \in HiddenIdx : Relist(Altered(attendances, i)) = Out

\* a call with an effective company filter on an event holding a hidden row
\* whose owner matches the filters, with other rows returned
C6_Witness ==
    /\ Called
    /\ Lower(Strip(OrElse(Args.company, <<>>))) # <<>>
    /\ \E i \in HiddenIdx : PassesOtherSteps(attendances[i])
    /\ Out.total_visible > 0

\* rows of the requested event that pass every step
SurvivorIdx ==
    {i \in EventRowIdx : PassesOtherSteps(attendances[i])
                         /\ can_see(Args.viewer, attendances[i])}

\* position of a surviving row in the descending (updated_at, user_id) order
RankOf(i) ==
    1 + Cardinality({j \in SurvivorIdx :
                        \/ attendances[j].updated_at > attendances[i].updated_at
                        \/ /\ attendances[j].updated_at = attendances[i].updated_at
                           /\ attendances[j].user_id > attendances[i].user_id})

Min(a, b) == IF a < b THEN a ELSE b

\* C7: total_visible counts the rows surviving the state filter, user
\* resolution, the disclosure predicate and the company/title filters, before
\* limiting; items are the first min(limit, total_visible) of them in sorted
\* order; so total_visible >= len(items), and > only when len(items) = limit.
C7_Truncation ==
    Called =>
        /\ Out.total_visible = Cardinality(SurvivorIdx)
        /\ Len(Out.items) = Min(Out.limit, Out.total_visible)
        /\ \A i \in SurvivorIdx :
              RankOf(i) <= Len(Out.items) =>
                 /\ Out.items[RankOf(i)].user_id = attendances[i].user_id
                 /\ Out.items[RankOf(i)].updated_at = attendances[i].updated_at
                 /\ Out.items[RankOf(i)].state = attendances[i].state
                 /\ Out.items[RankOf(i)].visibility = attendances[i].visibility
        /\ Out.total_visible >= Len(Out.items)
        /\ Out.total_visible > Len(Out.items) => Len(Out.items) = Out.limit

\* the list was cut at the limit after some rows of the event had been dropped
C7_Witness ==
    /\ Called
    /\ Out.total_visible > Out.limit
    /\ Len(Out.items) = Out.limit
    /\ Out.total_visible < Cardinality(EventRowIdx)

\* number of attendance rows of an event
RowCount(att, slug) == Cardinality({i \in 1..Len(att) : att[i].event_slug = slug})

\* this step is a second upsert_attendance with the arguments of the call before
\* it, which succeeded
RepeatedUpsertStep ==
    /\ calls' = calls + 1
    /\ lastOp.op = "upsert_attendance"
    /\ lastOp.ok
    /\ lastOp'.op = "upsert_attendance"
    /\ lastOp'.args = lastOp.args

\* C8: a second upsert_attendance with the same (event_slug, user_id, state,
\* visibility) on an existing event succeeds and leaves the store as the first
\* call left it except for that row's updated_at: the number of rows of the
\* event is unchanged, and every other row, the events, the users and the
\* auxiliary collections are unchanged.
C8_IdempotentUpsert ==
    [][RepeatedUpsertStep =>
          /\ lastOp'.ok
          /\ events' = events
          /\ users' = users
          /\ side_events' = side_events
          /\ meeting_requests' = meeting_requests
          /\ Len(attendances') = Len(attendances)
          /\ RowCount(attendances', lastOp.args[1]) = RowCount(attendances, lastOp.args[1])
          /\ \A i \in 1..Len(attendances) :
                IF /\ attendances[i].event_slug = lastOp.args[1]
                   /\ attendances[i].user_id = lastOp.args[2]
                THEN attendances'[i] =
                        [attendances[i] EXCEPT !.updated_at = attendances'[i].updated_at]
                ELSE attendances'[i] = attendances[i]
      ]_vars

\* the same successful upsert was made twice in a row, the second at a later
\* clock reading, in a store that holds other rows too
C8_Witness ==
    /\ lastOp.op = "upsert_attendance"
    /\ lastOp.ok
    /\ lastOp.repeat
    /\ Len(attendances) >= 4
    /\ \E i \in 1..Len(attendances) :
          /\ attendances[i].event_slug = lastOp.args[1]
          /\ attendances[i].user_id = lastOp.args[2]
          /\ attendances[i].updated_at = MaxNow
          /\ now = MaxNow

\* C9: from a store with one row per (event_slug, user_id) whose rows all
\* reference stored events, every sequence of create_event, update_event (slug
\* renames included), delete_event and upsert_attendance calls leaves at most
\* one attendance row per (event_slug, user_id) pair.
C9_OneRowPerPair ==
    \A i, j \in 1..Len(attendances) :
        (/\ attendances[i].event_slug = attendances[j].event_slug
         /\ attendances[i].user_id = attendances[j].user_id) => i = j

\* event a was renamed to c, the seeded rows moved with it, and an upsert into
\* c then hit the moved row of user free
C9_Witness ==
    /\ lastOp.op = "upsert_attendance"
    /\ lastOp.ok
    /\ lastOp.args[1] = SlugC
    /\ lastOp.args[2] = Ids.free
    /\ ~HasEvent(events, SlugA)
    /\ \E i \in 1..Len(attendances) :
          /\ attendances[i].event_slug = SlugC
          /\ attendances[i].user_id = Ids.verified
          /\ attendances[i].visibility = "VERIFIED_ONLY"
    /\ RowCount(attendances, SlugC) = 2

\* this step is a successful update_event that changes the slug A of the event
\* at index k
RenameStep(k) ==
    /\ calls' = calls + 1
    /\ lastOp'.op = "update_event"
    /\ lastOp'.ok
    /\ k \in 1..Len(events)
    /\ events[k].slug = lastOp'.args[1]
    /\ events'[k].slug # events[k].slug

\* C10: a successful update_event renaming slug A to B rewrites, in the same
\* written snapshot as the event, every attendance row of A to B and nothing
\* else: the number of rows is unchanged, the other fields of the moved rows
\* are unchanged, rows of other events are untouched, and no row of the
\* snapshot still references A.
C10_SlugCascade ==
    [][\A k \in 1..Len(events) :
          RenameStep(k) =>
             /\ Len(attendances') = Len(attendances)
             /\ \A i \in 1..Len(attendances) :
                   IF attendances[i].event_slug = events[k].slug
                   THEN attendances'[i] =
                           [attendances[i] EXCEPT !.event_slug = events'[k].slug]
                   ELSE attendances'[i] = attendances[i]
             /\ RowCount(attendances', events'[k].slug)
                   = RowCount(attendances, events[k].slug)
             /\ RowCount(attendances', events[k].slug) = 0
      ]_vars

\* a rename to c succeeded, two rows were moved and a row of another event
\* stayed where it was
C10_Witness ==
    /\ lastOp.op = "update_event"
    /\ lastOp.ok
    /\ lastOp.args[2].slug # None
    /\ Slugify(lastOp.args[2].slug) = SlugC
    /\ lastOp.args[1] # SlugC
    /\ HasEvent(events, SlugC)
    /\ RowCount(attendances, SlugC) >= 2
    /\ RowCount(attendances, lastOp.args[1]) = 0
    /\ \E i \in 1..Len(attendances) : attendances[i].event_slug \notin {SlugC, lastOp.args[1]}

\* no two stored events have the same slug
UniqueSlugs(evs) == \A i, j \in 1..Len(evs) : evs[i].slug = evs[j].slug => i = j

\* the slug create_event derives from a payload: the slug field, or the name
\* when the slug field is empty or absent, normalised
RequestedSlug(payload) == Slugify(OrElse(payload.slug, OrElse(payload.name, <<>>)))

\* this step is a create_event whose slug is already used by a stored event
CollidingCreateStep ==
    /\ calls' = calls + 1
    /\ lastOp'.op = "create_event"
    /\ HasEvent(events, RequestedSlug(lastOp'.args[1]))

\* this step is an update_event of a stored event to a slug used by another one
CollidingUpdateStep ==
    /\ calls' = calls + 1
    /\ lastOp'.op = "update_event"
    /\ HasEvent(events, lastOp'.args[1])
    /\ lastOp'.args[2].slug \notin {None, <<>>}
    /\ Slugify(lastOp'.args[2].slug) # lastOp'.args[1]
    /\ HasEvent(events, Slugify(lastOp'.args[2].slug))

\* C11: from a store whose event slugs are pairwise distinct, every sequence of
\* create_event, update_event and delete_event calls keeps them pairwise
\* distinct; create_event with a slug already used (given, or derived from the
\* name when the slug field is empty) fails, and so does update_event to a slug
\* used by another event, both leaving the events as they were.
C11_SlugUniqueness ==
    [][/\ UniqueSlugs(events)
       /\ UniqueSlugs(events')
       /\ CollidingCreateStep => (~lastOp'.ok /\ events' = events)
       /\ CollidingUpdateStep => (~lastOp'.ok /\ events' = events)
      ]_vars

\* an event was created with the slug a-b derived from its name, and a second
\* create_event with the same name and no slug field was refused
C11_Witness ==
    /\ lastOp.op = "create_event"
    /\ ~lastOp.ok
    /\ lastOp.error = "Event slug already exists"
    /\ lastOp.args[1] = Payload(None, <<"A", " ", "B">>)
    /\ \E i \in 1..Len(events) :
          events[i] = Event(<<"a", "-", "b">>, <<"A", " ", "B">>)
    /\ Len(events) >= 3

\* the five collections of the data file
Persisted == <<events, users, attendances, side_events, meeting_requests>>

\* the errors the handlers raise
ValidationErrors ==
    {"Slug or name is required", "Event slug already exists", "Event name is required",
     "Invalid attendance state", "Invalid attendance visibility"}
NotFoundErrors == {"Event not found"}

\* this step is a call of one of the four mutating handlers that raised
FailedCallStep ==
    /\ calls' = calls + 1
    /\ lastOp'.op \in {"create_event", "update_event", "delete_event", "upsert_attendance"}
    /\ ~lastOp'.ok

\* C12: whenever create_event, update_event, delete_event or upsert_attendance
\* raises (empty slug or name, slug collision, unknown event slug, invalid
\* state or visibility), the error is one of the validation or not-found
\* errors and the persisted store (events, users, attendances, side_events,
\* meeting_requests) is the store before the call.
C12_ErrorsNoSideEffect ==
    [][FailedCallStep =>
          /\ lastOp'.error \in ValidationErrors \cup NotFoundErrors
          /\ Persisted' = Persisted
      ]_vars

\* an upsert_attendance with an invalid visibility was refused in a store that
\* holds the event and a row of that user, after an earlier call had succeeded
C12_Witness ==
    /\ lastOp.op = "upsert_attendance"
    /\ ~lastOp.ok
    /\ lastOp.error = "Invalid attendance visibility"
    /\ HasEvent(events, lastOp.args[1])
    /\ \E i \in 1..Len(attendances) :
          /\ attendances[i].event_slug = lastOp.args[1]
          /\ attendances[i].user_id = lastOp.args[2]
    /\ Len(events) >= 3

\* every attendance row references a stored event
Referenced(evs, att) == \A i \in 1..Len(att) : HasEvent(evs, att[i].event_slug)

\* the rows of a collection that reference another slug, in their order
OtherRows(rows, slug) ==
    LET Keep(r) == r.event_slug # slug
    IN SelectSeq(rows, Keep)

\* this step is a successful delete_event
DeleteStep ==
    /\ calls' = calls + 1
    /\ lastOp'.op = "delete_event"
    /\ lastOp'.ok

\* this step is an upsert_attendance for a slug no stored event has
OrphanUpsertStep ==
    /\ calls' = calls + 1
    /\ lastOp'.op = "upsert_attendance"
    /\ ~HasEvent(events, lastOp'.args[1])

\* C13: from a store whose attendance rows all reference stored events, every
\* state reached by create_event, update_event, delete_event and
\* upsert_attendance keeps it so; upsert_attendance for a nonexistent event
\* fails and inserts nothing; after a successful delete_event(slug) no
\* attendance, side_event or meeting_request row references slug, and the rows
\* referencing other slugs are kept.
C13_ReferentialIntegrity ==
    [][/\ Referenced(events, attendances)
       /\ Referenced(events', attendances')
       /\ OrphanUpsertStep => (~lastOp'.ok /\ attendances' = attendances)
       /\ DeleteStep =>
             /\ ~HasEvent(events', lastOp'.args[1])
             /\ attendances' = OtherRows(attendances, lastOp'.args[1])
             /\ side_events' = OtherRows(side_events, lastOp'.args[1])
             /\ meeting_requests' = OtherRows(meeting_requests, lastOp'.args[1])
             /\ \A i \in 1..Len(attendances') :
                   attendances'[i].event_slug # lastOp'.args[1]
             /\ \A i \in 1..Len(side_events') :
                   side_events'[i].event_slug # lastOp'.args[1]
             /\ \A i \in 1..Len(meeting_requests') :
                   meeting_requests'[i].event_slug # lastOp'.args[1]
      ]_vars

\* event b was deleted with its attendance, side_event and meeting_request
\* rows, after an upsert into event a; the rows of a are all still there
C13_Witness ==
    /\ lastOp.op = "delete_event"
    /\ lastOp.ok
    /\ lastOp.args[1] = SlugB
    /\ HasEvent(events, SlugA)
    /\ ~HasEvent(events, SlugB)
    /\ RowCount(attendances, SlugA) >= 3
    /\ RowCount(attendances, SlugB) = 0
    /\ side_events = <<Aux(SlugA, 1)>>
    /\ meeting_requests = <<>>

====
